---- MODULE Spec2Model ----
(***************************************************************************)
(* The cycle statistics and prediction engine of auracycle                 *)
(* (src/src/lib/cycleStats.js) as a state machine: the inputs (the log     *)
(* list and the settings row) are drawn in Init, and one action per engine *)
(* function applies it to what the earlier ones returned, as the pages do  *)
(* (src/src/pages/Home.jsx:47-80, src/src/pages/Insights.jsx:42-46).       *)
(*                                                                         *)
(* Representation.  A date string 'YYYY-MM-DD' is its day number (a Nat).  *)
(* A JavaScript Date is a number of ticks, TicksPerDay ticks to the day,   *)
(* so a Date may lie inside a day; parseISO gives the day's first tick.    *)
(* Numbers with one decimal (avg, stdDev) are held in tenths.  null, NaN   *)
(* and an unparseable date string are numbers far below every real value.  *)
(*                                                                         *)
(* Two more parts follow the engine, each with a variable of its own: the  *)
(* reminders of src/lib/notifications (notif) and the session provider of  *)
(* src/src/lib/AuthContext.jsx (auth).                                     *)
(***************************************************************************)
EXTENDS Integers, Sequences, FiniteSets

VARIABLES logs, settings, pc, cycles, stats, prediction, lateStatus,
          irregularity, patterns, fertile, now, notif, auth

vars == <<logs, settings, pc, cycles, stats, prediction, lateStatus,
          irregularity, patterns, fertile, now, notif, auth>>

(* ------------------------------ bounds -------------------------------- *)
MaxLogs == 3
MaxDay == 5
MaxCompleted == 7
TicksPerDay == 2
MaxLateDays == 16
MaxPermuted == 4
MaxVaried == 4
MaxSymptomLogs == 3
MaxNotifyDays == 2
MaxShown == 2
MaxAuthEvents == 3
MaxRequests == 2
MaxSpread == 12

(* ------------------------- JavaScript values --------------------------- *)
\* null / undefined where an object is expected
Null == [isNull |-> TRUE]
\* null where a number or a date string is expected
NullNum == -1000001
\* NaN, the time value of an Invalid Date and what arithmetic on it gives
NaN == -1000002
\* a non-empty date string that parseISO cannot parse
BadDate == -1000003

\* truthiness of a number-or-null (0, NaN and null are falsy)
Truthy(x) == x # NullNum /\ x # NaN /\ x # 0
\* truthiness of a date string (null and "" are falsy, any other string is not)
HasDate(d) == d # NullNum

(* ------------------------------ date-fns ------------------------------- *)
parseISO(d) == IF d = BadDate \/ d = NullNum THEN NaN ELSE d * TicksPerDay

addDays(t, n) == IF t = NaN \/ n = NaN THEN NaN ELSE t + n * TicksPerDay

\* full days between two Dates, truncated toward zero
differenceInDays(a, b) ==
  IF a = NaN \/ b = NaN THEN NaN
  ELSE IF a >= b THEN (a - b) \div TicksPerDay
  ELSE -((b - a) \div TicksPerDay)

\* format(date, "yyyy-MM-dd"): the day the Date lies in (throws on Invalid Date,
\* which the callers test with CanFormat)
format(t) == t \div TicksPerDay

CanFormat(t) == t # NaN

(* --------------------------- Math helpers ------------------------------ *)
\* Math.round(num / den) for den > 0: halves go up
Round(num, den) == (2 * num + den) \div (2 * den)

Max2(a, b) == IF a >= b THEN a ELSE b

Min2(a, b) == IF a <= b THEN a ELSE b

RECURSIVE SumSeq(_)
SumSeq(s) == IF s = <<>> THEN 0 ELSE Head(s) + SumSeq(Tail(s))

RECURSIVE SumSq(_)
SumSq(s) == IF s = <<>> THEN 0 ELSE Head(s) * Head(s) + SumSq(Tail(s))

RECURSIVE MaxSeq(_)
MaxSeq(s) == IF Len(s) = 1 THEN s[1] ELSE Max2(Head(s), MaxSeq(Tail(s)))

\* mutant of MinSeq: the list is taken to be in ascending order
MinSeq_First(s) == s[1]

RECURSIVE MinSeq(_)
MinSeq(s) == IF Len(s) = 1 THEN s[1] ELSE Min2(Head(s), MinSeq(Tail(s)))

HasNaN(s) == \E i \in 1..Len(s) : s[i] = NaN

\* s.slice(-k)
LastK(s, k) == IF Len(s) <= k THEN s ELSE SubSeq(s, Len(s) - k + 1, Len(s))

(* ----------------------------- buildCycles ----------------------------- *)
\* mutant of IsPeriodLog: a log that bears symptoms counts as a period log
IsPeriodLog_OrSymptomLog(l) ==
  HasDate(l.date) /\ (l.log_type = "period" \/ l.symptoms # <<>>)

\* mutant of IsPeriodLog: the log type is not looked at
IsPeriodLog_AnyType(l) == HasDate(l.date)

\* line 16
IsPeriodLog(l) == l.log_type = "period" /\ HasDate(l.date)

WithDateObj(l) == [log_type |-> l.log_type, date |-> l.date,
                   symptoms |-> l.symptoms, dateObj |-> parseISO(l.date)]

RECURSIVE FilterPeriodLogs(_)
FilterPeriodLogs(ls) ==
  IF ls = <<>> THEN <<>>
  ELSE IF IsPeriodLog(Head(ls))
       THEN <<WithDateObj(Head(ls))>> \o FilterPeriodLogs(Tail(ls))
       ELSE FilterPeriodLogs(Tail(ls))

\* insert x after every element that is not later than it (stable)
RECURSIVE InsertByDate(_, _)
InsertByDate(x, s) ==
  IF s = <<>> THEN <<x>>
  ELSE IF x.dateObj < Head(s).dateObj THEN <<x>> \o s
  ELSE <<Head(s)>> \o InsertByDate(x, Tail(s))

RECURSIVE StableSort(_)
StableSort(s) ==
  IF s = <<>> THEN <<>>
  ELSE InsertByDate(s[Len(s)], StableSort(SubSeq(s, 1, Len(s) - 1)))

Permutations(s) ==
  { [i \in 1..Len(s) |-> s[p[i]]] :
      p \in { q \in [1..Len(s) -> 1..Len(s)] :
                \A i, j \in 1..Len(s) : i # j => q[i] # q[j] } }

\* Array.prototype.sort with (a, b) => a.dateObj - b.dateObj.  With an Invalid
\* Date the comparator returns NaN and is not a consistent comparator, so the
\* order is implementation-defined: any permutation.
SortOutcomes(s) ==
  IF \E i \in 1..Len(s) : s[i].dateObj = NaN
  THEN Permutations(s)
  ELSE {StableSort(s)}

\* mutant of SameRun: the boundary one day late
SameRun_UpTo3(gap) == gap # NaN /\ gap <= 3

\* line 27: gap <= 2 (a NaN gap compares false)
SameRun(gap) == gap # NaN /\ gap <= 2

\* the for loop of lines 22-34: groups of consecutive entries with gap <= 2
RECURSIVE GroupFrom(_, _, _)
GroupFrom(ps, groups, current) ==
  IF ps = <<>> THEN Append(groups, current)
  ELSE LET gap == differenceInDays(Head(ps).dateObj, current[Len(current)].dateObj)
       IN IF SameRun(gap)
          THEN GroupFrom(Tail(ps), groups, Append(current, Head(ps)))
          ELSE GroupFrom(Tail(ps), Append(groups, current), <<Head(ps)>>)

Groups(ps) == GroupFrom(Tail(ps), <<>>, <<Head(ps)>>)

\* mutant of PlusOne: the last day of the run is not counted
PlusOne_Same(x) == x

PlusOne(x) == IF x = NaN THEN NaN ELSE x + 1

\* mutant of CycleLength: measured from the end of this group's period
CycleLength_FromEnd(groups, i) ==
  IF i < Len(groups)
  THEN differenceInDays(groups[i + 1][1].dateObj,
                        groups[i][Len(groups[i])].dateObj)
  ELSE NullNum

\* lines 40-43: the days from this group's first log to the next group's
CycleLength(groups, i) ==
  IF i < Len(groups)
  THEN differenceInDays(groups[i + 1][1].dateObj, groups[i][1].dateObj)
  ELSE NullNum

MakeCycle(groups, i) ==
  LET group == groups[i]
      start == group[1]
      end == group[Len(group)]
  IN [index |-> i,
      start |-> start.date,
      end |-> end.date,
      startObj |-> start.dateObj,
      endObj |-> end.dateObj,
      periodLength |-> PlusOne(differenceInDays(end.dateObj, start.dateObj)),
      cycleLength |-> CycleLength(groups, i)]

\* buildCycles after the sort: sortedLogs is the sorted list of period logs
CyclesOf(sortedLogs) ==
  IF sortedLogs = <<>> THEN <<>>
  ELSE LET groups == Groups(sortedLogs)
       IN [i \in 1..Len(groups) |-> MakeCycle(groups, i)]

buildCycles(ls) == { CyclesOf(s) : s \in SortOutcomes(FilterPeriodLogs(ls)) }

\* mutant of LogsAfterBuildCycles: sort reorders the argument itself, which
\* getCycleLogs returned latest first
LogsAfterBuildCycles_SortedInPlace(ls) ==
  [i \in 1..Len(ls) |-> ls[Len(ls) + 1 - i]]

\* lines 15-18: the argument after the call.  filter and map return new arrays
\* and map new objects, so that sort, which works in place, reorders the copy
LogsAfterBuildCycles(ls) == ls

(* -------------------------- computeCycleStats -------------------------- *)
IsCompleted(c) == c.cycleLength # NullNum

RECURSIVE Completed(_)
Completed(cs) ==
  IF cs = <<>> THEN <<>>
  ELSE IF IsCompleted(Head(cs)) THEN <<Head(cs)>> \o Completed(Tail(cs))
  ELSE Completed(Tail(cs))

Lengths(cs) == [i \in 1..Len(cs) |-> cs[i].cycleLength]

\* n^2 times the population variance of the integers in s (n = Len(s))
Dev(s) == Len(s) * SumSq(s) - SumSeq(s) * SumSeq(s)

\* Math.round(Math.sqrt(d / n^2) * 10): the largest k with k - 1/2 <= 10 * sqrt(d) / n
RECURSIVE StdDev10From(_, _, _)
StdDev10From(k, d, n) ==
  IF (2 * k + 1) * (2 * k + 1) * n * n > 400 * d THEN k
  ELSE StdDev10From(k + 1, d, n)

StdDev10(d, n) == StdDev10From(0, d, n)

\* mutant of Variance10: the sample variance (divisor n - 1)
Variance10_Sample(lengths) ==
  IF Len(lengths) = 1 THEN NaN
  ELSE Round(10 * Dev(lengths), Len(lengths) * (Len(lengths) - 1))

\* lines 72 and 77: the population variance, rounded to one decimal, in tenths
Variance10(lengths) == Round(10 * Dev(lengths), Len(lengths) * Len(lengths))

EmptyStats == [avg |-> NullNum, variance |-> NullNum, stdDev |-> NullNum,
               last3 |-> <<>>, min |-> NullNum, max |-> NullNum, count |-> 0]

\* avg, variance and stdDev are in tenths
computeCycleStats(cs) ==
  LET completed == Completed(cs)
      lengths == Lengths(completed)
      n == Len(lengths)
  IN IF n = 0 THEN EmptyStats
     ELSE IF HasNaN(lengths)
     THEN [avg |-> NaN, variance |-> NaN, stdDev |-> NaN,
           last3 |-> LastK(lengths, 3), min |-> NaN, max |-> NaN, count |-> n]
     ELSE [avg |-> Round(10 * SumSeq(lengths), n),
           variance |-> Variance10(lengths),
           stdDev |-> StdDev10(Dev(lengths), n),
           last3 |-> LastK(lengths, 3),
           min |-> MinSeq(lengths),
           max |-> MaxSeq(lengths),
           count |-> n]

(* -------------------------- predictNextPeriod -------------------------- *)
\* settings?.average_cycle_length and settings?.last_period_start
AverageCycleLengthOf(s) == IF s = Null THEN NullNum ELSE s.average_cycle_length

LastPeriodStartOf(s) == IF s = Null THEN NullNum ELSE s.last_period_start

\* sum of recent[i].cycleLength * weights[i], weights[i] = i (1-based)
RECURSIVE WeightedSum(_, _)
WeightedSum(ls, i) ==
  IF i = 0 THEN 0 ELSE ls[i] * i + WeightedSum(ls, i - 1)

WeightSum(k) == (k * (k + 1)) \div 2

\* mutant of Recent: every completed cycle is weighted, not the last 6
Recent_All(completed) == completed

\* line 101: completed.slice(-6)
Recent(completed) == LastK(completed, 6)

\* mutant of FallbackLen: the declared length is preferred to the logged one
FallbackLen_SettingsFirst(st, s) ==
  IF Truthy(AverageCycleLengthOf(s))
  THEN [num |-> AverageCycleLengthOf(s), den |-> 1]
  ELSE IF Truthy(st.avg) THEN [num |-> st.avg, den |-> 10]
  ELSE [num |-> 28, den |-> 1]

\* line 106: stats.avg || settings?.average_cycle_length || 28, as a fraction
FallbackLen(st, s) ==
  IF Truthy(st.avg) THEN [num |-> st.avg, den |-> 10]
  ELSE IF Truthy(AverageCycleLengthOf(s))
       THEN [num |-> AverageCycleLengthOf(s), den |-> 1]
  ELSE [num |-> 28, den |-> 1]

\* lines 99-107: the average length as a fraction num / den (num = NaN for NaN)
AvgLen(cs, s) ==
  LET completed == Completed(cs)
      st == computeCycleStats(cs)
  IN IF Len(completed) >= 3
     THEN LET recent == Lengths(Recent(completed))
          IN IF HasNaN(recent) THEN [num |-> NaN, den |-> 1]
             ELSE [num |-> WeightedSum(recent, Len(recent)),
                   den |-> WeightSum(Len(recent))]
     ELSE FallbackLen(st, s)

RoundFrac(f, scale) == IF f.num = NaN THEN NaN ELSE Round(scale * f.num, f.den)

\* mutant of Confidence: the tier is decided by stdDev alone once a cycle exists
Confidence_StdDevOnly(nCompleted, stdDev) ==
  IF nCompleted = 0 \/ stdDev > 50 THEN "low"
  ELSE IF stdDev > 25 THEN "medium"
  ELSE "high"

\* lines 121-124, stdDev in tenths
Confidence(nCompleted, stdDev) ==
  IF nCompleted = 0 \/ stdDev > 50 THEN "low"
  ELSE IF nCompleted < 3 \/ stdDev > 25 THEN "medium"
  ELSE "high"

\* mutant of RangeDays: no lower clamp
RangeDays_NoFloor(stdDev) == Min2(7, Round(stdDev, 10))

\* lines 116-117, stdDev in tenths
RangeDays(stdDev) == Max2(1, Min2(7, Round(stdDev, 10)))

\* mutant of AnchorOf: the logged cycle is preferred to the declared start
AnchorOf_CycleFirst(cs, s) ==
  IF Len(cs) > 0 THEN cs[Len(cs)].start
  ELSE LastPeriodStartOf(s)

\* line 109: settings?.last_period_start || cycles[cycles.length - 1]?.start
AnchorOf(cs, s) ==
  IF HasDate(LastPeriodStartOf(s)) THEN LastPeriodStartOf(s)
  ELSE IF Len(cs) = 0 THEN NullNum
  ELSE cs[Len(cs)].start

\* mutant of NoCycles: the test is made on the completed cycles
NoCycles_NoneCompleted(cs) == Len(Completed(cs)) = 0

\* line 94: cycles.length === 0
NoCycles(cs) == Len(cs) = 0

\* what a call that throws (format of an Invalid Date: RangeError) leaves
Thrown == [threw |-> TRUE]

predictNextPeriod(cs, s) ==
  IF NoCycles(cs) THEN Null
  ELSE
    LET completed == Completed(cs)
        st == computeCycleStats(cs)
        avgLen == AvgLen(cs, s)
        lastPeriodStart == AnchorOf(cs, s)
    IN IF ~HasDate(lastPeriodStart) THEN Null
       ELSE
         LET lastStart == parseISO(lastPeriodStart)
             predictedDate == addDays(lastStart, RoundFrac(avgLen, 1))
             stdDev == IF Truthy(st.stdDev) THEN st.stdDev ELSE 0
             rangeDays == RangeDays(stdDev)
             rangeStart == addDays(predictedDate, -rangeDays)
             rangeEnd == addDays(predictedDate, rangeDays)
         IN IF ~CanFormat(predictedDate) THEN Thrown
            ELSE [predicted_date |-> format(predictedDate),
                  range_start |-> format(rangeStart),
                  range_end |-> format(rangeEnd),
                  predicted_date_obj |-> predictedDate,
                  range_start_obj |-> rangeStart,
                  range_end_obj |-> rangeEnd,
                  confidence |-> Confidence(Len(completed), stdDev),
                  avg_cycle_length |-> RoundFrac(avgLen, 10),
                  std_dev |-> Round(10 * stdDev, 10),
                  cycles_analyzed |-> Len(completed)]

(* ---------------------------- getLateStatus ---------------------------- *)
\* mutant of Severity: the second boundary one day late
Severity_MildUpTo8(daysLate) ==
  IF daysLate <= 3 THEN "normal"
  ELSE IF daysLate <= 8 THEN "mild"
  ELSE IF daysLate <= 14 THEN "moderate"
  ELSE "high"

\* lines 155-172
Severity(daysLate) ==
  IF daysLate <= 3 THEN "normal"
  ELSE IF daysLate <= 7 THEN "mild"
  ELSE IF daysLate <= 14 THEN "moderate"
  ELSE "high"

\* today is new Date(), a Date anywhere inside the current day
getLateStatus(p, s, today) ==
  IF p = Null \/ ~HasDate(LastPeriodStartOf(s)) THEN Null
  ELSE LET expectedDate == parseISO(p.predicted_date)
           daysLate == differenceInDays(today, expectedDate)
       IN IF daysLate <= 0 THEN Null
          ELSE [daysLate |-> daysLate, severity |-> Severity(daysLate)]

(* -------------------------- detectIrregularity ------------------------- *)
\* mutant of IsIrregular: the range is not looked at
IsIrregular_StdDevOnly(last3) == Dev(last3) > 16 * 9

\* mutant of IsIrregular: the stdDev test at 3 instead of 4
IsIrregular_StdDevAbove3(last3) ==
  Dev(last3) > 9 * 9 \/ MaxSeq(last3) - MinSeq(last3) > 8

\* lines 188-193: stdDev > 4 || range > 8, where stdDev > 4 is
\* variance > 16, that is 9 * variance > 16 * 9, for the 3 lengths
IsIrregular(last3) ==
  Dev(last3) > 16 * 9 \/ MaxSeq(last3) - MinSeq(last3) > 8

detectIrregularity(cs) ==
  LET completed == Completed(cs)
  IN IF Len(completed) < 3 THEN Null
     ELSE LET last3 == Lengths(LastK(completed, 3))
          IN IF HasNaN(last3)
             THEN [isIrregular |-> FALSE, stdDev |-> NaN, range |-> NaN,
                   last3 |-> last3]
             ELSE LET range == MaxSeq(last3) - MinSeq(last3)
                  IN [isIrregular |-> IsIrregular(last3),
                      stdDev |-> StdDev10(Dev(last3), 3),
                      range |-> range,
                      last3 |-> last3]

(* ------------------------ computeSymptomPatterns ----------------------- *)
HasSymptoms(l) == Len(l.symptoms) > 0 /\ HasDate(l.date)

\* lines 222-235: the first cycle whose span holds logDate, 0 when there is none
\* (a comparison with an Invalid Date is false)
MatchedCycle(cs, logDate) ==
  LET holds(i) ==
        /\ logDate # NaN
        /\ cs[i].startObj # NaN
        /\ logDate >= cs[i].startObj
        /\ i < Len(cs) => (cs[i + 1].startObj # NaN /\ logDate < cs[i + 1].startObj)
      matches == { i \in 1..Len(cs) : holds(i) }
  IN IF matches = {} THEN 0
     ELSE CHOOSE i \in matches : \A j \in matches : i <= j

\* mutant of InDayRange: the limit of the cross-cycle chart
InDayRange_UpTo42(cycleDay) == cycleDay >= 1 /\ cycleDay <= 42

\* line 239: cycleDay < 1 || cycleDay > 40 drops the log
InDayRange(cycleDay) == cycleDay >= 1 /\ cycleDay <= 40

\* symptomDays is kept as the list of its entries in insertion order
RECURSIVE PushDay(_, _, _)
PushDay(sd, symptom, day) ==
  IF sd = <<>> THEN <<[symptom |-> symptom, days |-> <<day>>]>>
  ELSE IF Head(sd).symptom = symptom
       THEN <<[symptom |-> symptom, days |-> Append(Head(sd).days, day)]>> \o Tail(sd)
       ELSE <<Head(sd)>> \o PushDay(Tail(sd), symptom, day)

RECURSIVE PushAll(_, _, _)
PushAll(sd, symptoms, day) ==
  IF symptoms = <<>> THEN sd
  ELSE PushAll(PushDay(sd, Head(symptoms), day), Tail(symptoms), day)

\* lines 217-245: the forEach over the logs
RECURSIVE SymptomDays(_, _, _)
SymptomDays(ls, cs, sd) ==
  IF ls = <<>> THEN sd
  ELSE LET log == Head(ls)
           logDate == parseISO(log.date)
           m == MatchedCycle(cs, logDate)
           cycleDay == differenceInDays(logDate, cs[m].startObj) + 1
       IN IF ~HasSymptoms(log) \/ m = 0 \/ ~InDayRange(cycleDay)
          THEN SymptomDays(Tail(ls), cs, sd)
          ELSE SymptomDays(Tail(ls), cs, PushAll(sd, log.symptoms, cycleDay))

\* symptom.replace(/_/g, " ") on the symptom strings of the model
ReplaceUnderscores(symptom) ==
  IF symptom = "mood_swings" THEN "mood swings" ELSE symptom

\* mutant of SelectTypical: the band lies around the rounded average
RECURSIVE SelectTypical_AroundAvgDay(_, _, _)
SelectTypical_AroundAvgDay(days, sum, n) ==
  IF days = <<>> THEN <<>>
  ELSE LET d == Head(days)
           diff == IF d >= Round(sum, n) THEN d - Round(sum, n) ELSE Round(sum, n) - d
       IN IF diff <= 2
          THEN <<d>> \o SelectTypical_AroundAvgDay(Tail(days), sum, n)
          ELSE SelectTypical_AroundAvgDay(Tail(days), sum, n)

\* line 253: the days d with Math.abs(d - avg) <= 2, avg = sum / n
RECURSIVE SelectTypical(_, _, _)
SelectTypical(days, sum, n) ==
  IF days = <<>> THEN <<>>
  ELSE LET d == Head(days)
           diff == IF d * n >= sum THEN d * n - sum ELSE sum - d * n
       IN IF diff <= 2 * n
          THEN <<d>> \o SelectTypical(Tail(days), sum, n)
          ELSE SelectTypical(Tail(days), sum, n)

\* mutant of AvgDay: the average is cut to a whole day
AvgDay_Floor(sum, n) == sum \div n

\* line 261: Math.round(avg), avg = sum / n
AvgDay(sum, n) == Round(sum, n)

\* lines 249-267: one pattern from one entry of symptomDays
MakePattern(e) ==
  LET days == e.days
      n == Len(days)
      sum == SumSeq(days)
      typical == SelectTypical(days, sum, n)
  IN [symptom |-> ReplaceUnderscores(e.symptom),
      rawSymptom |-> e.symptom,
      avgDay |-> AvgDay(sum, n),
      typMin |-> IF typical # <<>> THEN MinSeq(typical) ELSE Round(sum, n),
      typMax |-> IF typical # <<>> THEN MaxSeq(typical) ELSE Round(sum, n),
      count |-> n,
      allDays |-> days,
      spread |-> MaxSeq(days) - MinSeq(days)]

\* mutant of IsFrequent: one occurrence is enough
IsFrequent_Once(days) == Len(days) >= 1

\* line 248: days.length >= 2
IsFrequent(days) == Len(days) >= 2

RECURSIVE FilterFrequent(_)
FilterFrequent(sd) ==
  IF sd = <<>> THEN <<>>
  ELSE IF IsFrequent(Head(sd).days)
       THEN <<MakePattern(Head(sd))>> \o FilterFrequent(Tail(sd))
       ELSE FilterFrequent(Tail(sd))

\* stable sort by count, most frequent first
RECURSIVE InsertByCount(_, _)
InsertByCount(x, s) ==
  IF s = <<>> THEN <<x>>
  ELSE IF x.count > Head(s).count THEN <<x>> \o s
  ELSE <<Head(s)>> \o InsertByCount(x, Tail(s))

RECURSIVE SortByCount(_)
SortByCount(s) ==
  IF s = <<>> THEN <<>>
  ELSE InsertByCount(s[Len(s)], SortByCount(SubSeq(s, 1, Len(s) - 1)))

computeSymptomPatterns(ls, cs) ==
  IF Len(cs) = 0 THEN <<>>
  ELSE SortByCount(FilterFrequent(SymptomDays(ls, cs, <<>>)))

(* --------------------------- getFertileWindow -------------------------- *)
\* mutant of OvulationDayOffset: half the length is cut, not rounded
OvulationDayOffset_Floor(avgCycleLength) ==
  avgCycleLength.num \div (2 * avgCycleLength.den) - 2

\* line 280: Math.round(avgCycleLength / 2) - 2, avgCycleLength a fraction
OvulationDayOffset(avgCycleLength) ==
  Round(avgCycleLength.num, 2 * avgCycleLength.den) - 2

\* today is new Date(); the formatted fields are the days the Dates lie in
getFertileWindow(lastPeriodStart, avgCycleLength, today) ==
  IF ~HasDate(lastPeriodStart) THEN Null
  ELSE LET start == parseISO(lastPeriodStart)
           ovulation == addDays(start, OvulationDayOffset(avgCycleLength))
           fertileStart == addDays(ovulation, -2)
           fertileEnd == addDays(ovulation, 2)
       IN IF ~CanFormat(fertileStart) THEN Thrown
          ELSE [start |-> fertileStart,
                end |-> fertileEnd,
                ovulation |-> ovulation,
                startFormatted |-> format(fertileStart),
                endFormatted |-> format(fertileEnd),
                ovulationFormatted |-> format(ovulation),
                isActive |-> (today >= fertileStart /\ today <= fertileEnd),
                daysUntilStart |-> differenceInDays(fertileStart, today),
                daysUntilEnd |-> differenceInDays(fertileEnd, today)]

(* ------------------------------- inputs -------------------------------- *)
LogEntry(type, date, symptoms) ==
  [log_type |-> type, date |-> date, symptoms |-> symptoms]

\* period logs of any day of the window, and one without a date
PeriodEntries == { LogEntry("period", d, <<>>) : d \in {NullNum} \cup 0..MaxDay }

\* logs that are not period logs
OtherEntries == { LogEntry("symptom", 1, <<"cramps">>),
                  LogEntry("symptom", MaxDay, <<"cramps">>) }

\* a period log whose date string cannot be parsed
BadEntries == { LogEntry("period", BadDate, <<>>) }

SeqsUpTo(S, n) == UNION { [1..k -> S] : k \in 0..n }

\* every log list of at most MaxLogs entries, in any order
SmallLogLists == SeqsUpTo(PeriodEntries \cup OtherEntries, MaxLogs)

\* cycle lengths of the long histories
LenSet == {26, 30, 42}

\* the day the i-th period of a history starts (i = 0 for the first)
RECURSIVE StartDay(_, _)
StartDay(lens, i) == IF i = 0 THEN 0 ELSE lens[i] + StartDay(lens, i - 1)

\* one-day periods lens[i] days apart, latest first as getCycleLogs returns them
HistoryLogs(lens) ==
  [i \in 1..(Len(lens) + 1) |->
     LogEntry("period", StartDay(lens, Len(lens) + 1 - i), <<>>)]

Histories == { HistoryLogs(lens) : lens \in SeqsUpTo(LenSet, MaxCompleted) }

\* cycle lengths of the short histories: closer to each other
VariedLenSet == {26, 30, 34, 35}

VariedHistories ==
  { HistoryLogs(lens) : lens \in SeqsUpTo(VariedLenSet, MaxVaried) }

\* the diaries: two one-day periods and symptom logs on some of the days
DiaryPeriodDays == {2, 30}

\* the days a diary may bear a symptom log on, latest first: before the first
\* period, on the days 1, 2, 5 and 28 of the first cycle and on the days 1, 2,
\* 40 and 41 of the second
DiaryDaysDesc == <<70, 69, 31, 30, 29, 6, 3, 2, 0>>

\* what the symptoms column of a symptom log holds
SymptomLists ==
  { <<"cramps">>, <<"cramps:2">>, <<"cramps:3">>, <<"mood_swings", "cramps">> }

\* the log list of the diary f (f[i] is the symptoms logged on DiaryDaysDesc[i]),
\* latest first as getCycleLogs returns it
RECURSIVE DiaryFrom(_, _)
DiaryFrom(f, i) ==
  IF i > Len(DiaryDaysDesc) THEN <<>>
  ELSE LET d == DiaryDaysDesc[i]
           per == IF d \in DiaryPeriodDays
                  THEN <<LogEntry("period", d, <<>>)>> ELSE <<>>
           sym == IF i \in DOMAIN f
                  THEN <<LogEntry("symptom", d, f[i])>> ELSE <<>>
       IN per \o sym \o DiaryFrom(f, i + 1)

Diaries ==
  { DiaryFrom(f, 1) :
      f \in UNION { [S -> SymptomLists] :
                      S \in { X \in SUBSET (1..Len(DiaryDaysDesc)) :
                                Cardinality(X) <= MaxSymptomLogs } } }

Settings(acl, lps) == [average_cycle_length |-> acl, last_period_start |-> lps]

SettingsSet ==
  {Null} \cup { Settings(acl, lps) : acl \in {NullNum, 30}, lps \in {NullNum, 1} }

\* the settings tried with the long histories: none, or both fields declared
HistorySettings == {Null, Settings(30, 1)}

\* the average cycle lengths the settings form accepts
MinCycleLength == 20

MaxCycleLength == 45

\* the settings of the fertile window: any accepted length, or none
WindowSettings ==
  {Null} \cup { Settings(acl, lps) :
                  acl \in {NullNum} \cup MinCycleLength..MaxCycleLength,
                  lps \in {NullNum, 1} }

\* the histories of the fertile window: at most 2 completed cycles
WindowHistories ==
  { HistoryLogs(lens) : lens \in SeqsUpTo(VariedLenSet, 2) }

\* the clock readings new Date() may give for the fertile window: from the day
\* before the window to the day after it, at any tick of the day
WindowClock(lastPeriodStart, avgCycleLength) ==
  IF ~HasDate(lastPeriodStart) THEN {0}
  ELSE { addDays(parseISO(lastPeriodStart),
                 OvulationDayOffset(avgCycleLength) - 3) + k :
           k \in 0..(7 * TicksPerDay - 1) }

\* the log lists with at least one unparseable period log
MalformedLogLists ==
  { ls \in SeqsUpTo(PeriodEntries \cup BadEntries, MaxLogs) :
      \E i \in 1..Len(ls) : ls[i].date = BadDate }

\* the clock readings new Date() may give: from the day before the predicted
\* date to MaxLateDays days after it, at any tick of the day
Clock(p) ==
  IF p = Null THEN {0}
  ELSE { parseISO(p.predicted_date) + k :
           k \in (-TicksPerDay)..(MaxLateDays * TicksPerDay + TicksPerDay - 1) }

\* line 147: getLateStatus returns before it reads the clock
ReturnsBeforeClock(p, s) == p = Null \/ ~HasDate(LastPeriodStartOf(s))

(* ---------------------------- state machine ---------------------------- *)
\* nothing computed yet, no reminder checked
InitEngine ==
  /\ pc = "start"
  /\ cycles = <<>>
  /\ stats = Null
  /\ prediction = Null
  /\ lateStatus = Null
  /\ irregularity = Null
  /\ patterns = <<>>
  /\ fertile = Null
  /\ now = NullNum
  /\ notif = Null

\* and no provider looked at
InitResults == InitEngine /\ auth = Null

Init ==
  /\ \/ logs \in SmallLogLists /\ settings \in SettingsSet
     \/ logs \in Histories \cup VariedHistories /\ settings \in HistorySettings
  /\ InitResults

\* the cycle lists of the histories of fewer than MaxPermuted completed cycles,
\* in every order a caller may pass them
PermutedCycleLists ==
  UNION { Permutations(cs) :
            cs \in UNION { buildCycles(HistoryLogs(lens)) :
                             lens \in SeqsUpTo(LenSet, MaxPermuted - 1) } }

\* computeCycleStats called on a list of cycles in any order
InitPermuted ==
  /\ logs = <<>>
  /\ settings = Null
  /\ pc = "cycles"
  /\ cycles \in PermutedCycleLists
  /\ stats = Null
  /\ prediction = Null
  /\ lateStatus = Null
  /\ irregularity = Null
  /\ patterns = <<>>
  /\ fertile = Null
  /\ now = NullNum
  /\ notif = Null
  /\ auth = Null

InitWindow ==
  /\ logs \in WindowHistories
  /\ settings \in WindowSettings
  /\ InitResults

InitDiary ==
  /\ logs \in Diaries
  /\ settings = Null
  /\ InitResults

InitMalformed ==
  /\ logs \in MalformedLogLists
  /\ settings \in SettingsSet
  /\ InitResults

BuildCycles ==
  /\ pc = "start"
  /\ cycles' \in buildCycles(logs)
  /\ logs' = LogsAfterBuildCycles(logs)
  /\ pc' = "cycles"
  /\ UNCHANGED <<notif, auth, settings, stats, prediction, lateStatus, irregularity, patterns, fertile, now>>

ComputeCycleStats ==
  /\ pc = "cycles"
  /\ stats' = computeCycleStats(cycles)
  /\ pc' = "stats"
  /\ UNCHANGED <<notif, auth, logs, settings, cycles, prediction, lateStatus, irregularity, patterns, fertile, now>>

PredictNextPeriod ==
  /\ pc = "stats"
  /\ prediction' = predictNextPeriod(cycles, settings)
  /\ pc' = IF prediction' = Thrown THEN "threw" ELSE "prediction"
  /\ UNCHANGED <<notif, auth, logs, settings, cycles, stats, lateStatus, irregularity, patterns, fertile, now>>

GetLateStatus ==
  /\ pc = "patterns"
  /\ IF ReturnsBeforeClock(prediction, settings)
     THEN now' = now
     ELSE now' \in Clock(prediction)
  /\ lateStatus' = getLateStatus(prediction, settings, now')
  /\ pc' = "late"
  /\ UNCHANGED <<notif, auth, logs, settings, cycles, stats, prediction, irregularity, patterns, fertile>>

DetectIrregularity ==
  /\ pc = "prediction"
  /\ irregularity' = detectIrregularity(cycles)
  /\ pc' = "irregularity"
  /\ UNCHANGED <<notif, auth, logs, settings, cycles, stats, prediction, lateStatus, patterns, fertile, now>>

ComputeSymptomPatterns ==
  /\ pc = "irregularity"
  /\ patterns' = computeSymptomPatterns(logs, cycles)
  /\ pc' = "patterns"
  /\ UNCHANGED <<notif, auth, logs, settings, cycles, stats, prediction, lateStatus, irregularity, fertile, now>>

\* the fertile window as the assistant page asks for it: of the declared last
\* period start and stats.avg || settings?.average_cycle_length || 28
GetFertileWindow ==
  /\ pc = "stats"
  /\ now' \in WindowClock(LastPeriodStartOf(settings), FallbackLen(stats, settings))
  /\ fertile' = IF HasDate(LastPeriodStartOf(settings))
                THEN getFertileWindow(LastPeriodStartOf(settings),
                                      FallbackLen(stats, settings), now')
                ELSE Null
  /\ pc' = "fertile"
  /\ UNCHANGED <<notif, auth, logs, settings, cycles, stats, prediction, lateStatus, irregularity, patterns>>

NextCore == BuildCycles \/ ComputeCycleStats \/ PredictNextPeriod

Next ==
  \/ BuildCycles
  \/ ComputeCycleStats
  \/ PredictNextPeriod
  \/ DetectIrregularity
  \/ ComputeSymptomPatterns
  \/ GetLateStatus

Spec == Init /\ [][Next]_vars

\* the engine as the insights page runs it, without the late status
NextInsights ==
  \/ BuildCycles
  \/ ComputeCycleStats
  \/ PredictNextPeriod
  \/ DetectIrregularity
  \/ ComputeSymptomPatterns

SpecDiary == InitDiary /\ [][NextInsights]_vars

\* a second call of getLateStatus with the arguments of the first, later on
GetLateStatusAgain ==
  /\ pc = "late"
  /\ IF ReturnsBeforeClock(prediction, settings)
     THEN now' = now
     ELSE now' \in Clock(prediction)
  /\ lateStatus' = getLateStatus(prediction, settings, now')
  /\ pc' = "late again"
  /\ UNCHANGED <<notif, auth, logs, settings, cycles, stats, prediction, irregularity, patterns, fertile>>

\* a second call of getFertileWindow with the arguments of the first, later on
GetFertileWindowAgain ==
  /\ pc = "fertile"
  /\ now' \in WindowClock(LastPeriodStartOf(settings), FallbackLen(stats, settings))
  /\ fertile' = IF HasDate(LastPeriodStartOf(settings))
                THEN getFertileWindow(LastPeriodStartOf(settings),
                                      FallbackLen(stats, settings), now')
                ELSE Null
  /\ pc' = "fertile again"
  /\ UNCHANGED <<notif, auth, logs, settings, cycles, stats, prediction, lateStatus, irregularity, patterns>>

\* the whole engine as the assistant page calls it, and the two functions that
\* read the clock called once more
NextTwice ==
  \/ BuildCycles
  \/ ComputeCycleStats
  \/ PredictNextPeriod
  \/ DetectIrregularity
  \/ ComputeSymptomPatterns
  \/ GetLateStatus
  \/ GetLateStatusAgain
  \/ GetFertileWindow
  \/ GetFertileWindowAgain

SpecTwice == InitWindow /\ [][NextTwice]_vars

\* the fertile window after the cycles and their statistics
NextWindow == BuildCycles \/ ComputeCycleStats \/ GetFertileWindow

SpecWindow == InitWindow /\ [][NextWindow]_vars

\* computeCycleStats alone, on the cycle lists in any order
NextStats == ComputeCycleStats

SpecPermuted == InitPermuted /\ [][NextStats]_vars

\* the three functions of the prediction path on log lists with a malformed row
SpecMalformed == InitMalformed /\ [][NextCore]_vars

(* ------------------------------- claims -------------------------------- *)
\* which results the run has produced so far (pc = "cycles" is the state
\* right after buildCycles returned)
HasCycles == pc # "start"

HasStats == pc \notin {"start", "cycles"}

HasPrediction == pc \in {"prediction", "irregularity", "patterns", "late"}

HasIrregularity == pc \in {"irregularity", "patterns", "late"}

HasPatterns == pc \in {"patterns", "late"}

HasLateStatus == pc = "late"

\* the dates of the period logs that bear a parseable date
PeriodDates ==
  { logs[i].date :
      i \in { j \in 1..Len(logs) : logs[j].log_type = "period" /\ logs[j].date >= 0 } }

\* d1 and d2 are neighbours in the ascending order of the period dates
Consecutive(d1, d2) ==
  /\ d1 \in PeriodDates
  /\ d2 \in PeriodDates
  /\ d1 < d2
  /\ ~ \E d \in PeriodDates : d1 < d /\ d < d2

InCycle(d, c) == c.start <= d /\ d <= c.end

\* C1: of the dated period logs in ascending date order, two neighbours at most
\* 2 days apart lie in the same cycle, and two neighbours 3 or more days apart
\* lie in different cycles: the earlier one ends a cycle and the later one
\* starts the next.
C1_GapBoundary ==
  pc = "cycles" =>
    \A d1, d2 \in PeriodDates :
      Consecutive(d1, d2) =>
        IF d2 - d1 <= 2
        THEN \E i \in 1..Len(cycles) : InCycle(d1, cycles[i]) /\ InCycle(d2, cycles[i])
        ELSE /\ \E i \in 1..(Len(cycles) - 1) :
                  cycles[i].end = d1 /\ cycles[i + 1].start = d2
             /\ ~ \E i \in 1..Len(cycles) :
                  InCycle(d1, cycles[i]) /\ InCycle(d2, cycles[i])

\* a log list with a gap of exactly 2 days (merged) followed by a gap of exactly
\* 3 days (split)
C1_Witness ==
  /\ pc = "cycles"
  /\ \E d \in PeriodDates :
       /\ PeriodDates = {d, d + 2, d + 5}
       /\ Len(cycles) = 2
       /\ cycles[1].start = d /\ cycles[1].end = d + 2
       /\ cycles[2].start = d + 5

\* C2: the cycles are in strictly ascending order of start date, numbered 1..n;
\* every cycle with a successor has cycleLength = successor's start - its start,
\* and cycleLength is null for the last cycle and for no other.
C2_CycleOrderAndLength ==
  pc = "cycles" =>
    \A i \in 1..Len(cycles) :
      /\ cycles[i].index = i
      /\ i < Len(cycles) =>
           /\ cycles[i].start < cycles[i + 1].start
           /\ cycles[i].cycleLength = cycles[i + 1].start - cycles[i].start
      /\ (cycles[i].cycleLength = NullNum) <=> (i = Len(cycles))

\* a list of cycles in which a several-day period has a successor
C2_Witness ==
  /\ pc = "cycles"
  /\ Len(cycles) >= 2
  /\ cycles[1].periodLength > 1
  /\ cycles[1].cycleLength > cycles[1].periodLength

NoPeriodEntries == \A i \in 1..Len(logs) : logs[i].log_type # "period"

\* C3: for a log list without any period entry, with settings present or null,
\* buildCycles returns the empty list, computeCycleStats the zero-count result,
\* predictNextPeriod, getLateStatus and detectIrregularity null and
\* computeSymptomPatterns the empty list, and no call throws.
C3_NoPeriodLogs ==
  NoPeriodEntries =>
    /\ pc # "threw"
    /\ HasCycles => cycles = <<>>
    /\ HasStats =>
         /\ stats.count = 0
         /\ stats.last3 = <<>>
         /\ stats.avg = NullNum /\ stats.variance = NullNum /\ stats.stdDev = NullNum
         /\ stats.min = NullNum /\ stats.max = NullNum
    /\ HasPrediction => prediction = Null
    /\ HasIrregularity => irregularity = Null
    /\ HasPatterns => patterns = <<>>
    /\ HasLateStatus => lateStatus = Null

\* the whole run done on a non-empty list of symptom logs with a declared
\* last period start
C3_Witness ==
  /\ NoPeriodEntries
  /\ Len(logs) >= 2
  /\ settings # Null
  /\ settings.last_period_start # NullNum
  /\ pc = "late"

\* the log list without its rows whose date cannot be parsed
RECURSIVE WithoutBadRows(_)
WithoutBadRows(ls) ==
  IF ls = <<>> THEN <<>>
  ELSE IF Head(ls).date = BadDate THEN WithoutBadRows(Tail(ls))
  ELSE <<Head(ls)>> \o WithoutBadRows(Tail(ls))

\* what buildCycles returns for the well-formed rows alone
CyclesOfGoodRows == CHOOSE cs \in buildCycles(WithoutBadRows(logs)) : TRUE

\* C4: a period log whose date cannot be parsed is skipped: buildCycles,
\* computeCycleStats and predictNextPeriod return, without throwing, what they
\* return for the list without that log.
C4_BadRowsSkipped ==
  /\ pc # "threw"
  /\ HasCycles => cycles = CyclesOfGoodRows
  /\ HasStats => stats = computeCycleStats(CyclesOfGoodRows)
  /\ HasPrediction => prediction = predictNextPeriod(CyclesOfGoodRows, settings)

\* the lengths of the completed cycles, oldest first: the distances between
\* the starts of consecutive cycles
CompletedLengths ==
  [i \in 1..(Len(cycles) - 1) |-> cycles[i + 1].start - cycles[i].start]

NCompleted == Len(CompletedLengths)

DeclaresLastPeriodStart == settings # Null /\ settings.last_period_start # NullNum

DeclaresCycleLength == settings # Null /\ settings.average_cycle_length # NullNum

\* the stdDev of CycleStats in tenths, 0 when it is unknown
KnownStdDev == IF stats.stdDev = NullNum THEN 0 ELSE stats.stdDev

\* C5: confidence is never "high" with fewer than 3 completed cycles; it is
\* "low" if no cycle is completed or stdDev > 5, otherwise "medium" if fewer
\* than 3 cycles are completed or stdDev > 2.5, otherwise "high" (stdDev is the
\* stdDev of CycleStats, which has one decimal).
C5_ConfidenceTier ==
  (pc = "prediction" /\ prediction # Null) =>
    /\ NCompleted < 3 => prediction.confidence # "high"
    /\ prediction.confidence =
         IF NCompleted = 0 \/ KnownStdDev > 50 THEN "low"
         ELSE IF NCompleted < 3 \/ KnownStdDev > 25 THEN "medium"
         ELSE "high"

\* two completed cycles of the same length: no variance at all, and still
\* not "high"
C5_Witness ==
  /\ pc = "prediction"
  /\ prediction # Null
  /\ NCompleted = 2
  /\ stats.stdDev = 0
  /\ prediction.confidence = "medium"

\* the anchor date of the claims: the declared last period start, else the
\* start of the latest cycle
ExpectedAnchor ==
  IF DeclaresLastPeriodStart THEN settings.last_period_start
  ELSE cycles[Len(cycles)].start

\* the window of the weighted average: the last up to 6 completed lengths
WindowSize == IF NCompleted < 6 THEN NCompleted ELSE 6

WindowLength(i) == CompletedLengths[NCompleted - WindowSize + i]

\* sum over the window of weight * length, and of the weights (weight i for
\* the i-th length of the window, the oldest being the first)
WindowWeighted ==
  LET W[i \in 0..WindowSize] == IF i = 0 THEN 0 ELSE i * WindowLength(i) + W[i - 1]
  IN W[WindowSize]

WindowWeights ==
  LET W[i \in 0..WindowSize] == IF i = 0 THEN 0 ELSE i + W[i - 1]
  IN W[WindowSize]

\* C6: with 3 or more completed cycles the average length is the linearly
\* weighted average of the last up to 6 completed lengths, whatever the settings
\* and the older cycles are, and predictedDate = anchor + round(average).
C6_WeightedAverage ==
  (pc = "prediction" /\ NCompleted >= 3) =>
    /\ prediction # Null
    /\ prediction.avg_cycle_length = Round(10 * WindowWeighted, WindowWeights)
    /\ prediction.predicted_date = ExpectedAnchor + Round(WindowWeighted, WindowWeights)

\* seven completed cycles, the oldest of a length of its own, with settings
\* that declare an average cycle length
C6_Witness ==
  /\ pc = "prediction"
  /\ NCompleted = 7
  /\ DeclaresCycleLength
  /\ CompletedLengths[1] = 42
  /\ \A i \in 2..7 : CompletedLengths[i] = 26
  /\ prediction.avg_cycle_length = 260

\* the average length of the claims with fewer than 3 completed cycles, in tenths
ExpectedFallback10 ==
  IF NCompleted >= 1 THEN stats.avg
  ELSE IF DeclaresCycleLength THEN 10 * settings.average_cycle_length
  ELSE 280

\* C7: with fewer than 3 completed cycles the average length is CycleStats.avg
\* if a cycle is completed, else the declared average cycle length if the
\* settings declare one, else 28.
C7_FallbackAverage ==
  (pc = "prediction" /\ NCompleted < 3 /\ prediction # Null) =>
    /\ prediction.avg_cycle_length = ExpectedFallback10
    /\ prediction.predicted_date = ExpectedAnchor + Round(ExpectedFallback10, 10)

\* two completed cycles whose mean differs from the declared length
C7_Witness ==
  /\ pc = "prediction"
  /\ NCompleted = 2
  /\ DeclaresCycleLength
  /\ stats.avg # 10 * settings.average_cycle_length
  /\ prediction # Null
  /\ prediction.avg_cycle_length = stats.avg

\* the average length of the claims C6 and C7, rounded to days
ExpectedRoundedLength ==
  IF NCompleted >= 3 THEN Round(WindowWeighted, WindowWeights)
  ELSE Round(ExpectedFallback10, 10)

\* C8 as stated: the anchor is the declared last period start whenever it is
\* present, otherwise the start of the latest cycle, and null is returned only
\* when neither exists.
C8_AnchorNullOnlyWithoutAnchor ==
  pc = "prediction" =>
    /\ prediction = Null => (~DeclaresLastPeriodStart /\ cycles = <<>>)
    /\ prediction # Null =>
         prediction.predicted_date = ExpectedAnchor + ExpectedRoundedLength

\* C8 amended: for a non-empty cycle list the anchor is the declared last period
\* start whenever it is present, otherwise the start of the latest cycle; null
\* is returned exactly when the cycle list is empty, also when a last period
\* start is declared.
C8_AnchorOfNonEmptyList ==
  pc = "prediction" =>
    /\ prediction = Null <=> cycles = <<>>
    /\ cycles # <<>> =>
         prediction.predicted_date - ExpectedRoundedLength =
           IF DeclaresLastPeriodStart THEN settings.last_period_start
           ELSE cycles[Len(cycles)].start

\* a declared last period start earlier than the start of the latest cycle
C8_Witness ==
  /\ pc = "prediction"
  /\ DeclaresLastPeriodStart
  /\ cycles # <<>>
  /\ settings.last_period_start < cycles[Len(cycles)].start
  /\ prediction # Null
  /\ prediction.predicted_date < cycles[Len(cycles)].start + ExpectedRoundedLength

\* max(1, min(7, round(stdDev))) for the stdDev of CycleStats
ExpectedHalfWidth ==
  LET r == Round(KnownStdDev, 10)
  IN IF r < 1 THEN 1 ELSE IF r > 7 THEN 7 ELSE r

\* C9: for every prediction, rangeEnd - predictedDate = predictedDate -
\* rangeStart = max(1, min(7, round(stdDev))) days; the half-width lies between
\* 1 and 7 and is 1 for a zero or unknown stdDev.
C9_SymmetricRange ==
  (pc = "prediction" /\ prediction # Null) =>
    /\ prediction.range_end - prediction.predicted_date = ExpectedHalfWidth
    /\ prediction.predicted_date - prediction.range_start = ExpectedHalfWidth
    /\ prediction.range_end_obj - prediction.predicted_date_obj
         = ExpectedHalfWidth * TicksPerDay
    /\ prediction.predicted_date_obj - prediction.range_start_obj
         = ExpectedHalfWidth * TicksPerDay
    /\ prediction.range_end - prediction.predicted_date \in 1..7
    /\ KnownStdDev = 0 => prediction.range_end - prediction.range_start = 2

\* a stdDev above 7.5, cut to a half-width of 7 days
C9_Witness ==
  /\ pc = "prediction"
  /\ prediction # Null
  /\ stats.stdDev > 75
  /\ prediction.range_end - prediction.predicted_date = 7
  /\ prediction.predicted_date - prediction.range_start = 7

\* C10: predictNextPeriod returns null for the empty cycle list and a
\* prediction for every non-empty cycle list buildCycles produces, also when
\* no cycle is completed and settings is null.
C10_NullOnlyForNoCycles ==
  /\ pc # "threw"
  /\ pc = "prediction" =>
       IF Len(cycles) = 0 THEN prediction = Null
       ELSE /\ prediction # Null
            /\ prediction.cycles_analyzed = NCompleted
            /\ prediction.predicted_date > ExpectedAnchor

\* one cycle, not completed, and no settings: a prediction all the same
C10_Witness ==
  /\ pc = "prediction"
  /\ Len(cycles) = 1
  /\ settings = Null
  /\ prediction # Null
  /\ prediction.confidence = "low"

\* the days from the predicted date to the day the clock reading lies in
CalendarDaysLate == format(now) - prediction.predicted_date

SeverityRank(sev) ==
  CASE sev = "normal" -> 1
    [] sev = "mild" -> 2
    [] sev = "moderate" -> 3
    [] sev = "high" -> 4

\* C11: getLateStatus returns null for a null prediction, for settings without
\* a last period start and for daysLate = today - predictedDate <= 0; otherwise
\* a record with that daysLate and severity "normal" for 1..3, "mild" for 4..7,
\* "moderate" for 8..14 and "high" from 15 on, so that severity never decreases
\* as daysLate grows and changes exactly from 3 to 4, 7 to 8 and 14 to 15.
C11_LateTiers ==
  pc = "late" =>
    /\ IF prediction = Null \/ ~DeclaresLastPeriodStart \/ CalendarDaysLate <= 0
       THEN lateStatus = Null
       ELSE /\ lateStatus # Null
            /\ lateStatus.daysLate = CalendarDaysLate
            /\ lateStatus.severity =
                 IF CalendarDaysLate \in 1..3 THEN "normal"
                 ELSE IF CalendarDaysLate \in 4..7 THEN "mild"
                 ELSE IF CalendarDaysLate \in 8..14 THEN "moderate"
                 ELSE "high"
    /\ \A d \in 1..(MaxLateDays - 1) :
         /\ SeverityRank(Severity(d)) <= SeverityRank(Severity(d + 1))
         /\ (Severity(d) # Severity(d + 1)) <=> d \in {3, 7, 14}

\* the clock read in the middle of the 8th day after the predicted date: the
\* first "moderate" day
C11_Witness ==
  /\ pc = "late"
  /\ lateStatus # Null
  /\ now = parseISO(prediction.predicted_date + 8) + 1
  /\ lateStatus.daysLate = 8
  /\ lateStatus.severity = "moderate"

\* sums over the completed lengths
SumOfLengths ==
  LET S[i \in 0..NCompleted] == IF i = 0 THEN 0 ELSE CompletedLengths[i] + S[i - 1]
  IN S[NCompleted]

SumOfSquaredLengths ==
  LET S[i \in 0..NCompleted] ==
        IF i = 0 THEN 0 ELSE CompletedLengths[i] * CompletedLengths[i] + S[i - 1]
  IN S[NCompleted]

\* x10 is the fraction num / den (den > 0) to one decimal, in tenths
IsOneDecimalOf(x10, num, den) ==
  /\ 2 * den * x10 - den <= 20 * num
  /\ 20 * num < 2 * den * x10 + den

\* C12: computeCycleStats uses the completed cycles only: count is their number,
\* min and max the extremes of their lengths, avg their mean and variance their
\* population variance (divisor count), both to one decimal, last3 the last up
\* to 3 of the lengths, oldest first; without a completed cycle avg, variance,
\* stdDev, min and max are null, last3 is empty and count is 0.
C12_StatsOfCompleted ==
  pc = "stats" =>
    /\ stats.count = NCompleted
    /\ IF NCompleted = 0
       THEN /\ stats.avg = NullNum /\ stats.variance = NullNum
            /\ stats.stdDev = NullNum
            /\ stats.min = NullNum /\ stats.max = NullNum
            /\ stats.last3 = <<>>
       ELSE /\ \E i \in 1..NCompleted : stats.min = CompletedLengths[i]
            /\ \E i \in 1..NCompleted : stats.max = CompletedLengths[i]
            /\ \A i \in 1..NCompleted :
                 stats.min <= CompletedLengths[i] /\ CompletedLengths[i] <= stats.max
            /\ IsOneDecimalOf(stats.avg, SumOfLengths, NCompleted)
            /\ IsOneDecimalOf(stats.variance,
                              NCompleted * SumOfSquaredLengths
                                - SumOfLengths * SumOfLengths,
                              NCompleted * NCompleted)
            /\ Len(stats.last3) = IF NCompleted < 3 THEN NCompleted ELSE 3
            /\ \A i \in 1..Len(stats.last3) :
                 stats.last3[i] = CompletedLengths[NCompleted - Len(stats.last3) + i]

\* five completed cycles whose mean has a decimal, the two oldest (the
\* longest) not among the last 3
C12_Witness ==
  /\ pc = "stats"
  /\ NCompleted = 5
  /\ CompletedLengths[1] = 42 /\ CompletedLengths[2] = 42
  /\ stats.last3 = <<26, 26, 30>>
  /\ stats.min = 26 /\ stats.max = 42
  /\ stats.avg = 332
  /\ stats.variance > 0

\* the cycles of the list in the order of their index: one particular
\* permutation of the list
InIndexOrder ==
  [i \in 1..Len(cycles) |->
     CHOOSE c \in { cycles[j] : j \in 1..Len(cycles) } : c.index = i]

\* C13: avg, stdDev, variance, min, max and count of computeCycleStats are the
\* same for every permutation of a list of cycles: whatever the order of the
\* list is, they are what the list in index order gives.
C13_OrderIndependent ==
  pc = "stats" =>
    LET ref == computeCycleStats(InIndexOrder)
    IN /\ stats.avg = ref.avg
       /\ stats.stdDev = ref.stdDev
       /\ stats.variance = ref.variance
       /\ stats.min = ref.min
       /\ stats.max = ref.max
       /\ stats.count = ref.count

\* a list that begins with the cycle that has no length yet and whose
\* completed cycles are in descending order of length
C13_Witness ==
  /\ pc = "stats"
  /\ Len(cycles) = 4
  /\ cycles # InIndexOrder
  /\ cycles[1].cycleLength = NullNum
  /\ cycles[2].cycleLength = 42
  /\ cycles[3].cycleLength = 30
  /\ cycles[4].cycleLength = 26
  /\ stats.count = 3
  /\ stats.min = 26
  /\ stats.stdDev > 0

\* the i-th of the last 3 completed lengths (i = 1 for the oldest of them)
Last3Length(i) == CompletedLengths[NCompleted - 3 + i]

Last3Range ==
  LET vals == { Last3Length(i) : i \in 1..3 }
  IN (CHOOSE x \in vals : \A y \in vals : y <= x)
       - (CHOOSE x \in vals : \A y \in vals : x <= y)

\* 9 times the population variance of the last 3 completed lengths
Last3NineVariance ==
  3 * (Last3Length(1) * Last3Length(1) + Last3Length(2) * Last3Length(2)
         + Last3Length(3) * Last3Length(3))
    - (Last3Length(1) + Last3Length(2) + Last3Length(3))
        * (Last3Length(1) + Last3Length(2) + Last3Length(3))

\* C14: detectIrregularity returns null with fewer than 3 completed cycles;
\* otherwise last3 is the last 3 completed lengths, range their max - min, and
\* isIrregular holds exactly when their population stdDev is above 4 (their
\* variance above 16) or their range is above 8.
C14_Irregularity ==
  pc = "irregularity" =>
    IF NCompleted < 3 THEN irregularity = Null
    ELSE /\ irregularity # Null
         /\ irregularity.last3 = <<Last3Length(1), Last3Length(2), Last3Length(3)>>
         /\ irregularity.range = Last3Range
         /\ irregularity.isIrregular <=>
              (Last3NineVariance > 9 * 16 \/ Last3Range > 8)

\* last 3 lengths with a range of 9 and a stdDev below 4, after an older cycle
\* that would make the range 0 if it were taken for the newest
C14_Witness ==
  /\ pc = "irregularity"
  /\ NCompleted = 4
  /\ CompletedLengths = <<35, 26, 30, 35>>
  /\ irregularity # Null
  /\ irregularity.isIrregular
  /\ irregularity.range = 9
  /\ irregularity.stdDev < 40

\* the symptom identifier of a symptom string: the part before ':', as the
\* pages take it with split(":")[0], on the symptom strings of the model
SymptomId(symptom) ==
  IF symptom \in {"cramps:2", "cramps:3"} THEN "cramps" ELSE symptom

\* the symptom strings the logs hold
LoggedSymptoms ==
  UNION { { logs[i].symptoms[k] : k \in 1..Len(logs[i].symptoms) } :
            i \in 1..Len(logs) }

\* the cycle a date belongs to: at or after its start and, unless it is the
\* last cycle, before the start of the next (0 when there is none)
CycleOfDate(d) ==
  LET owns(i) == /\ cycles[i].start <= d
                 /\ (i = Len(cycles) \/ d < cycles[i + 1].start)
  IN IF \E i \in 1..Len(cycles) : owns(i)
     THEN CHOOSE i \in 1..Len(cycles) : owns(i)
     ELSE 0

\* the cycle day of a dated log, 0 when it belongs to no cycle
EntryDay(l) ==
  IF l.date = NullNum \/ CycleOfDate(l.date) = 0 THEN 0
  ELSE l.date - cycles[CycleOfDate(l.date)].start + 1

\* the log counts as an occurrence of the symptoms it bears
IsRetained(l) == EntryDay(l) >= 1 /\ EntryDay(l) <= 40

Bears(l, symptom) == \E k \in 1..Len(l.symptoms) : l.symptoms[k] = symptom

\* the cycle days of the retained logs that bear the symptom string, in the
\* order of the log list
OccurrenceDays(symptom) ==
  LET F[i \in 0..Len(logs)] ==
        IF i = 0 THEN <<>>
        ELSE IF Bears(logs[i], symptom) /\ IsRetained(logs[i])
             THEN Append(F[i - 1], EntryDay(logs[i]))
             ELSE F[i - 1]
  IN F[Len(logs)]

\* the number of retained occurrences of a symptom identifier, whatever the
\* severity suffix
OccurrencesOfId(id) ==
  Cardinality({ <<i, k>> \in (1..Len(logs)) \X (1..2) :
                  /\ k <= Len(logs[i].symptoms)
                  /\ SymptomId(logs[i].symptoms[k]) = id
                  /\ IsRetained(logs[i]) })

PatternsOfId(id) ==
  { i \in 1..Len(patterns) : SymptomId(patterns[i].rawSymptom) = id }

\* C15: the occurrences are grouped per symptom identifier, the part of the
\* symptom string before ':': an identifier with 2 or more retained occurrences,
\* whatever their severity suffixes, is reported as one pattern that counts
\* them all.
C15_GroupedByIdentifier ==
  pc = "patterns" =>
    \A id \in { SymptomId(x) : x \in LoggedSymptoms } :
      OccurrencesOfId(id) >= 2 =>
        /\ Cardinality(PatternsOfId(id)) = 1
        /\ \A i \in PatternsOfId(id) : patterns[i].count = OccurrencesOfId(id)

\* the dates of the logs that bear symptoms
SymptomDates ==
  { logs[i].date : i \in { j \in 1..Len(logs) : Len(logs[j].symptoms) > 0 } }

\* C16: a symptom-bearing log belongs to cycle i exactly when its date is at or
\* after the start of cycle i and cycle i is the last or the date is before the
\* start of cycle i + 1; a log before the first cycle is dropped, and so is one
\* whose cycle day (date - start + 1) is outside 1..40: the days recorded for a
\* symptom string are the cycle days of the logs so retained, all in 1..40.
C16_AssignedToCycle ==
  pc = "patterns" =>
    /\ \A i \in 1..Len(patterns) :
         /\ patterns[i].allDays = OccurrenceDays(patterns[i].rawSymptom)
         /\ \A k \in 1..Len(patterns[i].allDays) :
              patterns[i].allDays[k] >= 1 /\ patterns[i].allDays[k] <= 40
    /\ \A x \in LoggedSymptoms :
         Len(OccurrenceDays(x)) >= 2 =>
           \E i \in 1..Len(patterns) : patterns[i].rawSymptom = x

\* symptom logs on the last day of the first cycle and on the days 40 and 41
\* of the second: the first two are recorded
C16_Witness ==
  /\ pc = "patterns"
  /\ SymptomDates = {29, 69, 70}
  /\ Len(patterns) = 1
  /\ patterns[1].rawSymptom = "cramps"
  /\ patterns[1].allDays = <<40, 28>>

\* C17: every pattern has count >= 2, the number of the retained occurrences
\* of its symptom; a symptom with fewer than 2 retained occurrences is not
\* reported, be it taken as the symptom string or as the identifier.
C17_AtLeastTwoOccurrences ==
  pc = "patterns" =>
    /\ \A i \in 1..Len(patterns) :
         /\ patterns[i].count >= 2
         /\ patterns[i].count = Len(OccurrenceDays(patterns[i].rawSymptom))
    /\ \A x \in LoggedSymptoms :
         /\ Len(OccurrenceDays(x)) < 2 =>
              ~ \E i \in 1..Len(patterns) : patterns[i].rawSymptom = x
         /\ OccurrencesOfId(SymptomId(x)) < 2 => PatternsOfId(SymptomId(x)) = {}

\* mood swings logged twice, one of the two before the first period: one
\* retained occurrence, and only the cramps logged with them are reported
C17_Witness ==
  /\ pc = "patterns"
  /\ SymptomDates = {0, 2, 3}
  /\ \E i \in 1..Len(logs) : logs[i].date = 0 /\ Bears(logs[i], "mood_swings")
  /\ Len(OccurrenceDays("mood_swings")) = 1
  /\ Len(patterns) = 1
  /\ patterns[1].rawSymptom = "cramps"
  /\ patterns[1].count = 2

\* the sum of the occurrence days of a symptom string
SumOfDays(symptom) ==
  LET days == OccurrenceDays(symptom)
      S[i \in 0..Len(days)] == IF i = 0 THEN 0 ELSE days[i] + S[i - 1]
  IN S[Len(days)]

\* C18 as stated: the avgDay of a reported symptom is the mean of its
\* occurrence days.
C18_AvgDayIsMean ==
  pc = "patterns" =>
    \A i \in 1..Len(patterns) :
      patterns[i].avgDay * patterns[i].count = SumOfDays(patterns[i].rawSymptom)

\* C18 amended: the avgDay of a reported symptom is the mean of its occurrence
\* days rounded to the nearest whole day, a half going up.
C18_AvgDayIsRoundedMean ==
  pc = "patterns" =>
    \A i \in 1..Len(patterns) :
      LET n == patterns[i].count
          sum == SumOfDays(patterns[i].rawSymptom)
      IN /\ 2 * n * patterns[i].avgDay - n <= 2 * sum
         /\ 2 * sum < 2 * n * patterns[i].avgDay + n

\* occurrences on the days 1 and 2: a mean of 1.5, reported as day 2
C18_Witness ==
  /\ pc = "patterns"
  /\ Len(patterns) = 1
  /\ patterns[1].count = 2
  /\ SumOfDays(patterns[1].rawSymptom) = 3
  /\ patterns[1].avgDay = 2

\* the set of the occurrence days of a symptom string
DaySet(symptom) ==
  { OccurrenceDays(symptom)[k] : k \in 1..Len(OccurrenceDays(symptom)) }

MinOf(S) == CHOOSE x \in S : \A y \in S : x <= y

MaxOf(S) == CHOOSE x \in S : \A y \in S : y <= x

\* the occurrence days within 2 days of the reported avgDay of pattern i
NearAvgDay(i) ==
  { d \in DaySet(patterns[i].rawSymptom) :
      d - patterns[i].avgDay <= 2 /\ patterns[i].avgDay - d <= 2 }

\* the occurrence days within 2 days of the mean of the occurrences of pattern i
NearMean(i) ==
  LET n == Len(OccurrenceDays(patterns[i].rawSymptom))
      sum == SumOfDays(patterns[i].rawSymptom)
  IN { d \in DaySet(patterns[i].rawSymptom) :
         n * d - sum <= 2 * n /\ sum - n * d <= 2 * n }

\* count is the number of all occurrences, spread their max - min
CountsAllOccurrences(i) ==
  /\ patterns[i].count = Len(OccurrenceDays(patterns[i].rawSymptom))
  /\ patterns[i].spread = MaxOf(DaySet(patterns[i].rawSymptom))
                            - MinOf(DaySet(patterns[i].rawSymptom))

\* C19 as stated: the typical range of a reported symptom is the minimum and
\* the maximum of its occurrences within 2 days of avgDay, count is the number
\* of all its occurrences and spread their max - min.
C19_TypicalAroundAvgDay ==
  pc = "patterns" =>
    \A i \in 1..Len(patterns) :
      /\ NearAvgDay(i) # {}
      /\ patterns[i].typMin = MinOf(NearAvgDay(i))
      /\ patterns[i].typMax = MaxOf(NearAvgDay(i))
      /\ CountsAllOccurrences(i)

\* C19 amended: the typical range is the minimum and the maximum of the
\* occurrences within 2 days of the mean of the occurrences, not rounded, and
\* the single day round(mean) when no occurrence is that near; count is the
\* number of all occurrences and spread their max - min.
C19_TypicalAroundMean ==
  pc = "patterns" =>
    \A i \in 1..Len(patterns) :
      /\ IF NearMean(i) # {}
         THEN /\ patterns[i].typMin = MinOf(NearMean(i))
              /\ patterns[i].typMax = MaxOf(NearMean(i))
         ELSE /\ patterns[i].typMin = patterns[i].avgDay
              /\ patterns[i].typMax = patterns[i].avgDay
      /\ CountsAllOccurrences(i)

\* occurrences on the days 1, 2 and 5: the mean is 2.67 and avgDay 3; day 5 is
\* within 2 days of avgDay, not of the mean, and the typical range is 1 to 2
C19_Witness ==
  /\ pc = "patterns"
  /\ Len(patterns) = 1
  /\ patterns[1].allDays = <<5, 2, 1>>
  /\ patterns[1].avgDay = 3
  /\ patterns[1].typMin = 1
  /\ patterns[1].typMax = 2
  /\ patterns[1].count = 3
  /\ patterns[1].spread = 4

\* round(avgCycleLength / 2) for the average cycle length the window is asked
\* for (ExpectedFallback10, in tenths)
ExpectedHalfLength ==
  CHOOSE h \in 0..MaxCycleLength :
    /\ 40 * h - 20 <= 2 * ExpectedFallback10
    /\ 2 * ExpectedFallback10 < 40 * h + 20

\* the day of the expected ovulation: anchor + round(avgCycleLength / 2) - 2
ExpectedOvulationDay == settings.last_period_start + ExpectedHalfLength - 2

\* C20: for a non-null anchor and a valid average cycle length getFertileWindow
\* returns ovulation = anchor + round(avgCycleLength / 2) - 2 days, fertileStart
\* = ovulation - 2 days and fertileEnd = ovulation + 2 days, so that fertileEnd
\* - fertileStart is exactly 4 days; without an anchor it returns null.
C20_FertileWindow ==
  pc = "fertile" =>
    /\ getFertileWindow(NullNum, FallbackLen(stats, settings), now) = Null
    /\ IF ~DeclaresLastPeriodStart THEN fertile = Null
       ELSE /\ fertile # Null
            /\ fertile.ovulation = ExpectedOvulationDay * TicksPerDay
            /\ fertile.start = (ExpectedOvulationDay - 2) * TicksPerDay
            /\ fertile.end = (ExpectedOvulationDay + 2) * TicksPerDay
            /\ fertile.end - fertile.start = 4 * TicksPerDay
            /\ fertile.ovulationFormatted = ExpectedOvulationDay
            /\ fertile.startFormatted = ExpectedOvulationDay - 2
            /\ fertile.endFormatted = ExpectedOvulationDay + 2

\* a declared length of 29 days and no completed cycle: half of it is 14.5,
\* the ovulation is on the 13th day after the anchor
C20_Witness ==
  /\ pc = "fertile"
  /\ DeclaresLastPeriodStart
  /\ DeclaresCycleLength
  /\ settings.average_cycle_length = 29
  /\ NCompleted = 0
  /\ fertile # Null
  /\ fertile.ovulationFormatted = settings.last_period_start + 13
  /\ fertile.startFormatted = settings.last_period_start + 11
  /\ fertile.endFormatted = settings.last_period_start + 15

\* C21: isActive is true exactly when the day the clock reading lies in is one
\* of the days fertileStart .. fertileEnd, both included, at any time of that
\* day.
C21_ActiveOnWindowDays ==
  (pc = "fertile" /\ DeclaresLastPeriodStart) =>
    (fertile.isActive <=>
       /\ ExpectedOvulationDay - 2 <= format(now)
       /\ format(now) <= ExpectedOvulationDay + 2)

\* C22: two calls of an engine function with the same arguments return the
\* same output, whenever they are made: what a function returned is what it
\* returns for the same arguments at any later moment, and a second call of
\* getLateStatus or getFertileWindow returns what the first returned.
C22_SameOutputWheneverCalled ==
  [][ /\ HasCycles' => buildCycles(logs') = {cycles'}
      /\ HasStats' => stats' = computeCycleStats(cycles')
      /\ HasPrediction' => prediction' = predictNextPeriod(cycles', settings')
      /\ HasIrregularity' => irregularity' = detectIrregularity(cycles')
      /\ HasPatterns' => patterns' = computeSymptomPatterns(logs', cycles')
      /\ GetLateStatusAgain => lateStatus' = lateStatus
      /\ GetFertileWindowAgain => fertile' = fertile ]_vars

WithoutOtherLogs == SelectSeq(logs, LAMBDA l : l.log_type = "period")

\* C24: entries that are not period entries do not matter to buildCycles,
\* computeCycleStats and detectIrregularity: their results on the log list are
\* their results on the list with every such entry removed.
C24_OtherLogsIgnored ==
  (pc = "irregularity") =>
    \E c \in buildCycles(WithoutOtherLogs) :
      /\ cycles = c
      /\ stats = computeCycleStats(c)
      /\ irregularity = detectIrregularity(c)

\* a symptom entry dated three days or more after the only period entry
C24_Witness ==
  /\ pc = "irregularity"
  /\ Len(cycles) = 1
  /\ Len(WithoutOtherLogs) = 1
  /\ \E i \in 1..Len(logs) :
       /\ logs[i].log_type = "symptom"
       /\ logs[i].date >= cycles[1].end + 3

(* ---------------------------- notifications ---------------------------- *)
\* The reminders of src/lib/notifications.  notif holds what they read and
\* write besides their arguments: the build (the module as it first was, with
\* checkPeriodNotification alone, or as it is now), the Notification
\* permission, the localStorage keys, and how often each reminder was shown
\* on the day of the clock and whether on an earlier day.

\* first day of the days the reminders are followed over
FirstNotifyDay == 26

NotifTypes == {"period", "late_period", "fertile_approaching", "ovulation",
               "symptoms", "mood"}

NotifKeys == {"aura_last_period_notif", "aura_notif_period",
              "aura_notif_late_period", "aura_notif_fertile_approaching",
              "aura_notif_ovulation", "aura_notif_symptoms", "aura_notif_mood"}

\* new Date('yyyy-MM-dd'), in a time zone of offset zero
NewDate(d) == parseISO(d)

\* a % b of JavaScript for b > 0: the sign of a
JsRem(a, b) == IF a >= 0 THEN a % b ELSE -((-a) % b)

\* mutant of alreadySentToday: the key is never found
alreadySentToday_Never(store, key, today) == FALSE

alreadySentToday(store, key, today) == store[key] = format(today)

markSentToday(store, key, today) == [store EXCEPT ![key] = format(today)]

\* showNotification: nothing is shown without the permission
showNotification(n, type) ==
  IF n.permission # "granted" THEN n
  ELSE [n EXCEPT !.shownToday[type] = @ + 1]

\* if (!alreadySentToday(key)) { showNotification(...); markSentToday(key); }
SendUnlessSentToday(n, type, key, today) ==
  IF alreadySentToday(n.store, key, today) THEN n
  ELSE [showNotification(n, type) EXCEPT
          !.store = markSentToday(n.store, key, today)]

CycleLengthOf(s) ==
  IF Truthy(s.average_cycle_length) THEN s.average_cycle_length ELSE 28

DaysUntilNext(s, today) ==
  CycleLengthOf(s)
    - JsRem(differenceInDays(today, NewDate(s.last_period_start)),
            CycleLengthOf(s))

\* settings.reminder_period_before ?? 2
ReminderDays(s) ==
  IF s.reminder_period_before = NullNum THEN 2 ELSE s.reminder_period_before

PeriodIsNear(s, today) ==
  DaysUntilNext(s, today) > 0 /\ DaysUntilNext(s, today) <= ReminderDays(s)

checkPeriodReminder(n, s, today) ==
  IF s = Null \/ ~s.notifications_enabled THEN n
  ELSE IF ~HasDate(s.last_period_start) THEN n
  ELSE IF PeriodIsNear(s, today)
       THEN SendUnlessSentToday(n, "period", "aura_notif_period", today)
       ELSE n

checkLatePeriodReminder(n, s, p, today) ==
  IF s = Null \/ ~s.notifications_enabled THEN n
  ELSE IF p = Null \/ ~HasDate(p.predicted_date) THEN n
  ELSE IF differenceInDays(today, NewDate(p.predicted_date)) < 2 THEN n
  ELSE SendUnlessSentToday(n, "late_period", "aura_notif_late_period", today)

checkFertileWindowReminder(n, s, today) ==
  IF s = Null \/ ~s.notifications_enabled THEN n
  ELSE IF ~HasDate(s.last_period_start) THEN n
  ELSE LET fw == getFertileWindow(s.last_period_start,
                                  [num |-> CycleLengthOf(s), den |-> 1], today)
           n1 == IF fw.daysUntilStart = 1
                 THEN SendUnlessSentToday(n, "fertile_approaching",
                                          "aura_notif_fertile_approaching", today)
                 ELSE n
       IN IF differenceInDays(fw.ovulation, today) = 0
          THEN SendUnlessSentToday(n1, "ovulation", "aura_notif_ovulation", today)
          ELSE n1

\* recentLogs?.some((l) => l.date === today && l[field]?.length > 0)
LoggedToday(recentLogs, field, today) ==
  \E i \in 1..Len(recentLogs) :
    recentLogs[i].date = format(today) /\ Len(recentLogs[i][field]) > 0

checkSymptomReminder(n, s, recentLogs, today) ==
  IF s = Null \/ ~s.reminder_symptoms_enabled THEN n
  ELSE IF LoggedToday(recentLogs, "symptoms", today) THEN n
  ELSE SendUnlessSentToday(n, "symptoms", "aura_notif_symptoms", today)

checkMoodReminder(n, s, recentLogs, today) ==
  IF s = Null \/ ~s.reminder_mood_enabled THEN n
  ELSE IF LoggedToday(recentLogs, "moods", today) THEN n
  ELSE SendUnlessSentToday(n, "mood", "aura_notif_mood", today)

checkAllNotifications(n, s, recentLogs, p, today) ==
  IF n.permission # "granted" THEN n
  ELSE IF s = Null \/ ~s.notifications_enabled THEN n
  ELSE LET n1 == checkPeriodReminder(n, s, today)
           n2 == checkLatePeriodReminder(n1, s, p, today)
           n3 == checkFertileWindowReminder(n2, s, today)
           n4 == checkSymptomReminder(n3, s, recentLogs, today)
       IN checkMoodReminder(n4, s, recentLogs, today)

\* checkPeriodNotification as the module first had it
checkPeriodNotification_first(n, s, today) ==
  IF s = Null \/ ~s.notifications_enabled THEN n
  ELSE IF ~HasDate(s.last_period_start) THEN n
  ELSE IF n.permission # "granted" THEN n
  ELSE IF PeriodIsNear(s, today)
       THEN SendUnlessSentToday(n, "period", "aura_last_period_notif", today)
       ELSE n

\* checkPeriodNotification of the build
checkPeriodNotification(n, s, today) ==
  IF n.build = "first" THEN checkPeriodNotification_first(n, s, today)
  ELSE checkPeriodReminder(n, s, today)

NotifSettings ==
  {Null} \cup
  { [notifications_enabled |-> e, last_period_start |-> lps,
     average_cycle_length |-> acl, reminder_period_before |-> rpb,
     reminder_symptoms_enabled |-> sy, reminder_mood_enabled |-> mo] :
      e \in BOOLEAN, lps \in {NullNum, FirstNotifyDay - 26, FirstNotifyDay - 9},
      acl \in {NullNum}, rpb \in {NullNum, 1},
      sy \in BOOLEAN, mo \in BOOLEAN }

DayLog(d, symptoms, moods) == [date |-> d, symptoms |-> symptoms, moods |-> moods]

RecentLogLists ==
  { <<>>,
    << DayLog(FirstNotifyDay + 1, <<"cramps">>, <<>>),
       DayLog(FirstNotifyDay, <<>>, <<"calm">>) >> }

NotifPredictions == {Null, [predicted_date |-> FirstNotifyDay - 1]}

InitNotifications ==
  /\ settings \in NotifSettings
  /\ logs \in RecentLogLists
  /\ prediction \in NotifPredictions
  /\ now = FirstNotifyDay * TicksPerDay
  /\ notif \in { [build |-> b, permission |-> perm,
                  store |-> [k \in NotifKeys |-> NullNum],
                  shownToday |-> [t \in NotifTypes |-> 0],
                  shownBefore |-> {}] :
                  b \in {"first", "current"}, perm \in {"granted", "default"} }
  /\ auth = Null
  /\ pc = "start"
  /\ cycles = <<>>
  /\ stats = Null
  /\ lateStatus = Null
  /\ irregularity = Null
  /\ patterns = <<>>
  /\ fertile = Null

NoneShownTooOften == \A t \in NotifTypes : notif.shownToday[t] < MaxShown

CheckPeriodNotification ==
  /\ NoneShownTooOften
  /\ notif' = checkPeriodNotification(notif, settings, now)
  /\ UNCHANGED <<logs, settings, pc, cycles, stats, prediction, lateStatus,
                 irregularity, patterns, fertile, now, auth>>

CheckAllNotifications ==
  /\ notif.build = "current"
  /\ NoneShownTooOften
  /\ notif' = checkAllNotifications(notif, settings, logs, prediction, now)
  /\ UNCHANGED <<logs, settings, pc, cycles, stats, prediction, lateStatus,
                 irregularity, patterns, fertile, now, auth>>

\* the clock moves on; on a new day nothing has been shown yet
Tick ==
  /\ now < (FirstNotifyDay + MaxNotifyDays + 1) * TicksPerDay - 1
  /\ now' = now + 1
  /\ notif' = IF format(now + 1) = format(now) THEN notif
              ELSE [notif EXCEPT
                      !.shownToday = [t \in NotifTypes |-> 0],
                      !.shownBefore =
                         @ \cup { t \in NotifTypes : notif.shownToday[t] > 0 }]
  /\ UNCHANGED <<logs, settings, pc, cycles, stats, prediction, lateStatus,
                 irregularity, patterns, fertile, auth>>

NextNotifications == CheckPeriodNotification \/ CheckAllNotifications \/ Tick

SpecNotifications == InitNotifications /\ [][NextNotifications]_vars

\* C25: on one calendar day no reminder (period, late period, fertile window
\* approaching, ovulation, symptoms, mood) is shown more than once, whatever
\* calls of checkPeriodNotification and checkAllNotifications are made.
C25_ShownAtMostOnceADay == \A t \in NotifTypes : notif.shownToday[t] <= 1

\* the period reminder shown today, after the first day, and the symptom
\* reminder, shown on an earlier day, again today
C25_Witness ==
  /\ notif # Null
  /\ notif.shownToday["symptoms"] = 1
  /\ "symptoms" \in notif.shownBefore
  /\ notif.shownToday["period"] = 1
  /\ notif.store["aura_notif_period"] = format(now)
  /\ format(now) > FirstNotifyDay

(* ----------------------------- AuthProvider ---------------------------- *)
\* The provider of src/lib/AuthContext.jsx once mounted.  auth holds its
\* state (user, profile, loading), its refs (initialised, profileRef), the
\* cached profile in localStorage, the safety timer, the getSession promise,
\* the session of the auth client, the profile requests in flight (each with
\* the isInitial of its loadProfile call), a logout waiting for signOut, the
\* number of auth events so far, and whether the last processed sign-out has
\* not been followed by a sign-in event.

TheUser == [id |-> "u1"]

Profiles == { [id |-> "u1", display_name |-> n] : n \in {"a", "b"} }

\* what the profile request can settle to: resolved with the row, with no row,
\* with an error and no data (the client resolves with { data: null, error },
\* as db.js getProfile expects), or rejected by the 5 s timeout
ProfileResults ==
  { [kind |-> "resolved", data |-> d, error |-> FALSE] : d \in Profiles \cup {Null} }
  \cup { [kind |-> "resolved", data |-> Null, error |-> TRUE],
         [kind |-> "rejected", data |-> Null, error |-> TRUE] }

\* lines 19-29 and the start of the request: loadProfile up to its await
LoadProfileStart(a, isInitial) ==
  LET restored == IF isInitial /\ a.cache # Null
                  THEN [a EXCEPT !.profileRef = a.cache, !.profile = a.cache,
                                 !.loading = FALSE]
                  ELSE a
  IN [restored EXCEPT !.requests = Append(@, [isInitial |-> isInitial])]

\* lines 38-57: loadProfile after its await
LoadProfileEnd(a, isInitial, result) ==
  LET done ==
        IF result.kind = "resolved"
        THEN [a EXCEPT !.profileRef = result.data, !.profile = result.data,
                       !.cache = result.data]
        ELSE IF isInitial /\ a.profileRef = Null
             THEN [a EXCEPT !.profileRef = Null, !.profile = Null]
             ELSE a
  IN [done EXCEPT !.loading = FALSE]

RemoveAt(q, i) == SubSeq(q, 1, i - 1) \o SubSeq(q, i + 1, Len(q))

Mounted ==
  { [user |-> Null, profile |-> Null, loading |-> TRUE,
     initialised |-> FALSE, profileRef |-> Null, cache |-> c,
     safetyTimer |-> TRUE, getSession |-> "pending", session |-> ss,
     requests |-> <<>>, logoutPending |-> FALSE, events |-> 0,
     signedOut |-> FALSE] :
       c \in Profiles \cup {Null}, ss \in {Null, TheUser} }

InitAuth ==
  /\ auth \in Mounted
  /\ logs = <<>>
  /\ settings = Null
  /\ InitEngine

EngineUnchanged ==
  UNCHANGED <<logs, settings, pc, cycles, stats, prediction, lateStatus,
              irregularity, patterns, fertile, now, notif>>

\* mutant of SafetyTimer: the timer runs out without an effect
SafetyTimer_NoEffect ==
  /\ auth.safetyTimer
  /\ auth' = [auth EXCEPT !.safetyTimer = FALSE]
  /\ EngineUnchanged

\* line 61: the 4 s timer fires
SafetyTimer ==
  /\ auth.safetyTimer
  /\ auth' = [auth EXCEPT !.safetyTimer = FALSE, !.loading = FALSE]
  /\ EngineUnchanged

\* lines 65-75
GetSessionResolved ==
  /\ auth.getSession = "pending"
  /\ LET a == [auth EXCEPT !.getSession = "settled"]
     IN auth' =
          IF a.initialised THEN a
          ELSE LET b == [a EXCEPT !.initialised = TRUE, !.user = a.session]
               IN IF b.user # Null THEN LoadProfileStart(b, TRUE)
                  ELSE [b EXCEPT !.loading = FALSE]
  /\ EngineUnchanged

\* lines 76-81
GetSessionRejected ==
  /\ auth.getSession = "pending"
  /\ LET a == [auth EXCEPT !.getSession = "settled"]
     IN auth' = IF a.initialised THEN a
                ELSE [a EXCEPT !.initialised = TRUE, !.loading = FALSE]
  /\ EngineUnchanged

AuthEvents ==
  {"INITIAL_SESSION", "SIGNED_IN", "SIGNED_OUT", "TOKEN_REFRESHED", "USER_UPDATED"}

\* the session the auth client passes with the event
SessionWith(event, session) ==
  CASE event = "SIGNED_IN" -> TheUser
    [] event = "SIGNED_OUT" -> Null
    [] OTHER -> session

\* when the auth client emits the event: INITIAL_SESSION first if at all,
\* the events about a session only while there is one
Emits(event) ==
  CASE event = "INITIAL_SESSION" -> auth.events = 0
    [] event = "SIGNED_IN" -> TRUE
    [] event = "SIGNED_OUT" -> auth.session # Null
    [] OTHER -> auth.session # Null

\* lines 84-120: the handler up to its await
HandleAuthEvent(a, event) ==
  LET currentUser == a.session
  IN CASE event = "INITIAL_SESSION" ->
            IF a.initialised THEN a
            ELSE LET b == [a EXCEPT !.initialised = TRUE, !.user = currentUser]
                 IN IF currentUser # Null THEN LoadProfileStart(b, TRUE)
                    ELSE [b EXCEPT !.loading = FALSE]
       [] event = "SIGNED_OUT" ->
            [a EXCEPT !.user = Null, !.profileRef = Null, !.profile = Null,
                      !.loading = FALSE, !.signedOut = TRUE]
       [] event = "TOKEN_REFRESHED" -> [a EXCEPT !.user = currentUser]
       [] OTHER ->
            LET b == [a EXCEPT !.user = currentUser,
                               !.signedOut = IF event = "SIGNED_IN" THEN FALSE ELSE @]
            IN IF currentUser # Null
               THEN LoadProfileStart(b, b.profileRef = Null)
               ELSE b

OnAuthStateChange(event) ==
  /\ Emits(event)
  /\ auth.events < MaxAuthEvents
  /\ Len(auth.requests) < MaxRequests
  /\ auth' = HandleAuthEvent(
               [auth EXCEPT !.session = SessionWith(event, auth.session),
                            !.events = @ + 1], event)
  /\ EngineUnchanged

\* the request of the i-th loadProfile call in flight settles
LoadProfileSettled(i, result) ==
  /\ i \in 1..Len(auth.requests)
  /\ auth' = LoadProfileEnd([auth EXCEPT !.requests = RemoveAt(@, i)],
                            auth.requests[i].isInitial, result)
  /\ EngineUnchanged

\* lines 129-131
RefreshProfile ==
  /\ auth.user # Null
  /\ Len(auth.requests) < MaxRequests
  /\ auth' = LoadProfileStart(auth, FALSE)
  /\ EngineUnchanged

\* lines 133-138: logout up to its await; signOut makes the client emit
\* SIGNED_OUT
LogoutStart ==
  /\ ~auth.logoutPending
  /\ auth' = [auth EXCEPT !.logoutPending = TRUE,
                          !.cache = IF auth.user # Null THEN Null ELSE @]
  /\ EngineUnchanged

\* lines 139-141: logout after signOut has removed the session
LogoutEnd ==
  /\ auth.logoutPending
  /\ auth.session = Null
  /\ auth' = [auth EXCEPT !.logoutPending = FALSE, !.user = Null,
                          !.profileRef = Null, !.profile = Null,
                          !.signedOut = TRUE]
  /\ EngineUnchanged

NextAuth ==
  \/ SafetyTimer
  \/ GetSessionResolved
  \/ GetSessionRejected
  \/ \E event \in AuthEvents : OnAuthStateChange(event)
  \/ \E i \in 1..MaxRequests, result \in ProfileResults : LoadProfileSettled(i, result)
  \/ RefreshProfile
  \/ LogoutStart
  \/ LogoutEnd

SpecAuth == InitAuth /\ [][NextAuth]_vars

\* setTimeout runs its callback: the timer, once set, fires
SpecAuthTimed == SpecAuth /\ WF_vars(SafetyTimer)

FailedResults == { r \in ProfileResults : r.error }

\* C26: a profile request that fails (resolves with an error, or is rejected
\* by the timeout) never wipes a profile that is held: the loadProfile call
\* that made it leaves profile as it was.
C26_FailedRefetchKeepsProfile ==
  [][ \A i \in 1..MaxRequests, r \in FailedResults :
        (auth.profile # Null /\ LoadProfileSettled(i, r))
          => auth'.profile = auth.profile ]_vars

\* C27: after a processed SIGNED_OUT event or logout(), and until a sign-in
\* event arrives, user and profile are null.
C27_SignedOutStaysNull ==
  (auth # Null /\ auth.signedOut) => (auth.user = Null /\ auth.profile = Null)

\* C28: after mount loading becomes false, whether or not getSession settles,
\* an auth event arrives or a profile request settles, and once false it is
\* never true again.
C28_LoadingEndsForGood ==
  /\ <>(auth.loading = FALSE)
  /\ [][auth.loading = FALSE => auth'.loading = FALSE]_vars

\* loading has ended by the timer alone: getSession is still pending, no auth
\* event has arrived and no profile was requested
C28_Witness ==
  /\ auth # Null
  /\ ~auth.loading
  /\ ~auth.safetyTimer
  /\ auth.getSession = "pending"
  /\ auth.events = 0
  /\ ~auth.initialised

\* C29: every cycle has periodLength = end - start + 1, at least 1; a cycle
\* with a successor has cycleLength at least periodLength + 2, so at least 3,
\* and its successor starts 3 days or more after its last period day.
C29_PeriodWithinCycle ==
  pc = "cycles" =>
    \A i \in 1..Len(cycles) :
      /\ cycles[i].periodLength = cycles[i].end - cycles[i].start + 1
      /\ cycles[i].periodLength >= 1
      /\ i < Len(cycles) =>
           /\ cycles[i].cycleLength >= cycles[i].periodLength + 2
           /\ cycles[i].cycleLength >= 3
           /\ cycles[i + 1].start >= cycles[i].end + 3

\* the tightest case: a period of 3 days (first and last day logged) followed
\* by a single period day 3 days after its last day
C29_Witness ==
  /\ pc = "cycles"
  /\ Len(cycles) = 2
  /\ cycles[1].periodLength = 3
  /\ cycles[1].cycleLength = 5
  /\ cycles[2].periodLength = 1
  /\ cycles[2].start = cycles[1].end + 3

\* every 3 completed cycle lengths from the shortest length the settings form
\* accepts to MaxSpread days more.  Variance and range depend on the
\* differences of the lengths alone, and a range above 8 decides by itself.
TripleHistories ==
  { HistoryLogs(<<a, b, c>>) :
      a \in MinCycleLength..(MinCycleLength + MaxSpread),
      b \in MinCycleLength..(MinCycleLength + MaxSpread),
      c \in MinCycleLength..(MinCycleLength + MaxSpread) }

InitTriples ==
  /\ logs \in TripleHistories
  /\ settings = Null
  /\ InitResults

NextTriples ==
  \/ BuildCycles
  \/ ComputeCycleStats
  \/ PredictNextPeriod
  \/ DetectIrregularity

SpecTriples == InitTriples /\ [][NextTriples]_vars

\* C30: for the last 3 completed lengths, a population stdDev above 4 (9 times
\* the variance above 144) comes only with a range above 8, so isIrregular
\* holds exactly when the range is above 8.
C30_RangeDecides ==
  (pc = "irregularity" /\ NCompleted >= 3) =>
    /\ Last3NineVariance > 9 * 16 => Last3Range > 8
    /\ irregularity.isIrregular <=> Last3Range > 8

\* the smallest spread with a stdDev above 4: lengths a, a + 8, a + 9 have 9
\* times the variance at 146 and a range of 9
C30_Witness ==
  /\ pc = "irregularity"
  /\ CompletedLengths = <<MinCycleLength, MinCycleLength + 8, MinCycleLength + 9>>
  /\ Last3NineVariance = 146
  /\ Last3Range = 9
  /\ irregularity.isIrregular
  /\ irregularity.stdDev = 40

====
